---- MODULE Spec2Model ----
(***************************************************************************)
(* Model of the auo configuration store: ConfigMigration (migration.ts)    *)
(* and ConfigManager (manager.ts) acting on one JSON file on disk.         *)
(*                                                                         *)
(* Strings are sequences of one-character strings, so that trim() is       *)
(* computed.  A JavaScript value that is `undefined` is Undef; a key that  *)
(* is missing from an object is Absent.  JSON.stringify drops keys whose   *)
(* value is undefined, so a file only ever holds Absent.                   *)
(***************************************************************************)
EXTENDS Integers, Sequences, FiniteSets, TLC

VARIABLES file, last, migrations, faults, proc

vars == <<file, last, migrations, faults, proc>>

\* ------------------------------------------------------------------ bounds
MaxProviders == 2

MaxMigrations == 2

\* ----------------------------------------------------------------- strings
Undef == <<"<undefined>">>

Absent == <<"<absent>">>

sDefault == <<"d", "e", "f", "a", "u", "l", "t">>

sDefaultDescription ==
  <<"D", "e", "f", "a", "u", "l", "t", " ",
    "c", "o", "n", "f", "i", "g", "u", "r", "a", "t", "i", "o", "n">>

\* obj.key read in JavaScript: a missing key reads as undefined
Get(v) == IF v = Absent THEN Undef ELSE v

\* JavaScript truthiness of a string-or-undefined value
Truthy(v) == Get(v) # Undef /\ v # <<>>

\* v || undefined
OrUndefined(v) == IF Truthy(v) THEN v ELSE Undef

RECURSIVE trimStart(_)
trimStart(s) == IF s # <<>> /\ Head(s) = " " THEN trimStart(Tail(s)) ELSE s

RECURSIVE trimEnd(_)
trimEnd(s) ==
  IF s # <<>> /\ s[Len(s)] = " " THEN trimEnd(SubSeq(s, 1, Len(s) - 1)) ELSE s

\* String.prototype.trim
trim(s) == trimEnd(trimStart(s))

\* v?.trim() || fallback
TrimOr(v, fallback) ==
  IF Get(v) = Undef THEN fallback
  ELSE IF trim(v) = <<>> THEN fallback ELSE trim(v)

\* --------------------------------------------------------------- documents
\* One profile object.  A V1 entry has baseUrl/authToken and no env; a V2
\* entry has env with the three recognised keys.
Item(name, description, baseUrl, authToken, hasEnv, url, token, model) ==
  [name |-> name, description |-> description,
   baseUrl |-> baseUrl, authToken |-> authToken, hasEnv |-> hasEnv,
   ANTHROPIC_BASE_URL |-> url, ANTHROPIC_AUTH_TOKEN |-> token,
   ANTHROPIC_MODEL |-> model]

ItemV1(name, baseUrl, authToken, description) ==
  Item(name, description, baseUrl, authToken, FALSE, Absent, Absent, Absent)

ItemV2(name, description, url, token, model) ==
  Item(name, description, Absent, Absent, TRUE, url, token, model)

\* The content of the file, or a parsed document in memory.
\*   kind "absent"    : no file
\*   kind "garbage"   : unreadable, or not valid JSON
\*   kind "primitive" : valid JSON that is not an object (null, a number)
\*   kind "object"    : a JSON object; version "" means no version key
\* fraction is TRUE when the number stored as currentIndex is
\* currentIndex + 0.5.  Only documents handed to the functions of
\* migration.ts carry a fraction; the files of the store hold whole numbers.
Doc(kind, version, hasProviders, providers, currentIndex) ==
  [kind |-> kind, version |-> version, hasProviders |-> hasProviders,
   providers |-> providers, currentIndex |-> currentIndex,
   fraction |-> FALSE]

\* the document with 0.5 added to its currentIndex
Fractional(config) == [config EXCEPT !.fraction = TRUE]

NoFile == Doc("absent", "", FALSE, <<>>, 0)

Garbage == Doc("garbage", "", FALSE, <<>>, 0)

JsonNull == Doc("primitive", "", FALSE, <<>>, 0)

ConfigFileV1(providers, currentIndex) ==
  Doc("object", "", TRUE, providers, currentIndex)

ConfigFileV2(providers, currentIndex) ==
  Doc("object", "v2", TRUE, providers, currentIndex)

\* a stringify that drops empty strings as well as undefined
StringifyValue_dropEmpty(v) == IF v = Undef \/ v = <<>> THEN Absent ELSE v

\* JSON.stringify of one value: undefined is dropped
StringifyValue(v) == IF v = Undef THEN Absent ELSE v

StringifyItem(p) ==
  [name |-> StringifyValue(p.name),
   description |-> StringifyValue(p.description),
   baseUrl |-> StringifyValue(p.baseUrl),
   authToken |-> StringifyValue(p.authToken),
   hasEnv |-> p.hasEnv,
   ANTHROPIC_BASE_URL |-> StringifyValue(p.ANTHROPIC_BASE_URL),
   ANTHROPIC_AUTH_TOKEN |-> StringifyValue(p.ANTHROPIC_AUTH_TOKEN),
   ANTHROPIC_MODEL |-> StringifyValue(p.ANTHROPIC_MODEL)]

\* JSON.stringify(config, null, 2) followed by a later JSON.parse
Stringify(config) ==
  [config EXCEPT !.providers =
     [i \in 1..Len(config.providers) |-> StringifyItem(config.providers[i])]]

\* ------------------------------------------------------------ migration.ts
isConfigFileV2(config) == config.version = "v2"

needsMigration(config) == ~isConfigFileV2(config)

\* `'version' in config` raises a TypeError when config is not an object
InThrows(config) == config.kind = "primitive"

\* configV1.providers.map raises a TypeError when providers is missing
MapThrows(configV1) == ~configV1.hasProviders

\* a map callback that copies baseUrl and authToken as they are
migrateItem_keepEmpty(provider) ==
  ItemV2(Get(provider.name), Get(provider.description),
         Get(provider.baseUrl), Get(provider.authToken), Undef)

migrateItem(provider) ==
  ItemV2(Get(provider.name), Get(provider.description),
         OrUndefined(provider.baseUrl), OrUndefined(provider.authToken),
         Undef)

\* migrateV1ToV2 without the version tag on the document it returns
migrateV1ToV2_untagged(configV1) ==
  [Doc("object", "", TRUE,
       [i \in 1..Len(configV1.providers) |->
          migrateItem(configV1.providers[i])],
       configV1.currentIndex)
     EXCEPT !.fraction = configV1.fraction]

\* currentIndex: configV1.currentIndex copies the number as it is
migrateV1ToV2(configV1) ==
  [Doc("object", "v2", TRUE,
       [i \in 1..Len(configV1.providers) |->
          migrateItem(configV1.providers[i])],
       configV1.currentIndex)
     EXCEPT !.fraction = configV1.fraction]

\* a default document whose profile has no token value
getDefaultV2Config_noToken ==
  ConfigFileV2(<<ItemV2(sDefault, sDefaultDescription, Undef, Undef, Undef)>>, 0)

getDefaultV2Config ==
  ConfigFileV2(<<ItemV2(sDefault, sDefaultDescription, Undef, <<>>, Undef)>>, 0)

\* one pass of the provider loop; an env value is a string or undefined in
\* every document of this model, so the three typeof checks on env pass
validItem(provider) ==
  /\ Truthy(provider.name)
  /\ Get(provider.description) # Undef
  /\ provider.hasEnv

\* typeof currentIndex is 'number' for every document of this model; for a
\* currentIndex of n + 0.5 the two comparisons with a whole number give what
\* they give for n, and nothing tests that the number is whole
validateV2Config(config) ==
  /\ config.version = "v2"
  /\ config.hasProviders
  /\ Len(config.providers) # 0
  /\ ~(config.currentIndex < 0)
  /\ ~(config.currentIndex >= Len(config.providers))
  /\ \A i \in 1..Len(config.providers) : validItem(config.providers[i])


\* a migrate that converts whatever it is given
migrate_always(config) ==
  [config |-> migrateV1ToV2(config),
   result |-> [migrated |-> TRUE, fromVersion |-> "v1", toVersion |-> "v2"]]

\* result of ConfigMigration.migrate: the document and the MigrationResult
migrate(config) ==
  IF isConfigFileV2(config)
  THEN [config |-> config,
        result |-> [migrated |-> FALSE, fromVersion |-> "", toVersion |-> "v2"]]
  ELSE [config |-> migrateV1ToV2(config),
        result |-> [migrated |-> TRUE, fromVersion |-> "v1", toVersion |-> "v2"]]

\* -------------------------------------------------------------- manager.ts
\* a save that writes the document without its version key
saveConfig_untagged(config) == [Stringify(config) EXCEPT !.version = ""]

\* What fs.writeFileSync leaves in the file when the write succeeds.
saveConfig(config) == Stringify(config)

\* Outcome of loadConfig: the document returned, the file afterwards,
\* whether the migrated document was written, whether a write failed.
Loaded(config, f, migrated, wfail) ==
  [config |-> config, file |-> f, migrated |-> migrated, wfail |-> wfail]

\* rawConfig.currentIndex = 0 when out of range (manager.ts 90-95)
ensureIndex(rawConfig) ==
  IF rawConfig.currentIndex < 0 \/ rawConfig.currentIndex >= Len(rawConfig.providers)
  THEN [rawConfig EXCEPT !.currentIndex = 0]
  ELSE rawConfig

\* loadConfig that writes the default document it falls back to when the
\* file is absent, unreadable or not valid JSON
loadConfig_persistDefault(f, wOk) ==
  IF f.kind = "absent" \/ f.kind = "garbage"
  THEN Loaded(getDefaultV2Config, saveConfig(getDefaultV2Config), FALSE, FALSE)
  ELSE IF InThrows(f) THEN Loaded(getDefaultV2Config, f, FALSE, FALSE)
  ELSE IF needsMigration(f)
    THEN IF MapThrows(f) THEN Loaded(getDefaultV2Config, f, FALSE, FALSE)
         ELSE IF wOk
           THEN Loaded(migrate(f).config, saveConfig(migrate(f).config), TRUE, FALSE)
           ELSE Loaded(getDefaultV2Config, f, FALSE, TRUE)
  ELSE IF validateV2Config(f) THEN Loaded(ensureIndex(f), f, FALSE, FALSE)
  ELSE Loaded(getDefaultV2Config, f, FALSE, FALSE)

\* loadConfig that returns a V2-tagged document without validating it
loadConfig_unvalidated(f, wOk) ==
  IF f.kind = "absent" THEN Loaded(getDefaultV2Config, f, FALSE, FALSE)
  ELSE IF f.kind = "garbage" THEN Loaded(getDefaultV2Config, f, FALSE, FALSE)
  ELSE IF InThrows(f) THEN Loaded(getDefaultV2Config, f, FALSE, FALSE)
  ELSE IF needsMigration(f)
    THEN IF MapThrows(f) THEN Loaded(getDefaultV2Config, f, FALSE, FALSE)
         ELSE IF wOk
           THEN Loaded(migrate(f).config, saveConfig(migrate(f).config), TRUE, FALSE)
           ELSE Loaded(getDefaultV2Config, f, FALSE, TRUE)
  ELSE Loaded(ensureIndex(f), f, FALSE, FALSE)

\* loadConfig on file content f; wOk says whether a write it attempts succeeds.
\* Every exception inside the try block (a missing file is no exception) ends
\* in the catch, which returns the default document.
loadConfig(f, wOk) ==
  IF f.kind = "absent" THEN Loaded(getDefaultV2Config, f, FALSE, FALSE)
  ELSE IF f.kind = "garbage" THEN Loaded(getDefaultV2Config, f, FALSE, FALSE)
  ELSE IF InThrows(f) THEN Loaded(getDefaultV2Config, f, FALSE, FALSE)
  ELSE IF needsMigration(f)
    THEN IF MapThrows(f) THEN Loaded(getDefaultV2Config, f, FALSE, FALSE)
         ELSE IF wOk
           THEN Loaded(migrate(f).config, saveConfig(migrate(f).config), TRUE, FALSE)
           ELSE Loaded(getDefaultV2Config, f, FALSE, TRUE)
  ELSE IF validateV2Config(f) THEN Loaded(ensureIndex(f), f, FALSE, FALSE)
  ELSE Loaded(getDefaultV2Config, f, FALSE, FALSE)

\* Outcome of one public operation.
\*   result : "true" "false" "null" "value" "void" "raised", or for
\*            forceMigration "none->v2" "v1->v2" "not migrated"
\*   ret    : the name of the profile returned, Undef when none is returned
\*   loaded : the document loadConfig returned, NoFile when it did not run
Out(f, result, ret, migrated, wfail, loaded) ==
  [file |-> f, result |-> result, ret |-> ret,
   migrated |-> migrated, wfail |-> wfail, loaded |-> loaded]

\* providers[index], 0-based as in the source
At(providers, index) == providers[index + 1]

InRange(providers, index) == index >= 0 /\ index < Len(providers)

\* providers.some((cfg) => cfg.name === name)
someName(providers, name) ==
  \E i \in 1..Len(providers) : Get(providers[i].name) = name

\* providers.findIndex((cfg) => cfg.name === name), -1 when there is none
findIndex(providers, name) ==
  IF someName(providers, name)
  THEN (CHOOSE i \in 1..Len(providers) :
          /\ Get(providers[i].name) = name
          /\ \A j \in 1..(i - 1) : Get(providers[j].name) # name) - 1
  ELSE -1

\* providers.splice(index, 1)
splice(providers, index) ==
  [i \in 1..(Len(providers) - 1) |->
     IF i <= index THEN providers[i] ELSE providers[i + 1]]

\* listConfigs prints every profile of the loaded document
listConfigs(f, wOk) ==
  LET ld == loadConfig(f, wOk)
  IN Out(ld.file, "void", Undef, ld.migrated, ld.wfail, ld.config)

getCurrentConfig(f, wOk) ==
  LET ld == loadConfig(f, wOk)
      config == ld.config
      chosen ==
        IF InRange(config.providers, config.currentIndex)
        THEN At(config.providers, config.currentIndex)
        ELSE IF Len(config.providers) > 0 THEN At(config.providers, 0)
        ELSE At(getDefaultV2Config.providers, 0)
  IN Out(ld.file, "value", Get(chosen.name), ld.migrated, ld.wfail, config)

\* getConfigEnvironment() without an argument: a copy of the env of the
\* profile getCurrentConfig returns; ret is the name of that profile
getConfigEnvironment(f, wOk) ==
  LET cur == getCurrentConfig(f, wOk)
  IN Out(cur.file, "value", cur.ret, cur.migrated, cur.wfail, cur.loaded)

\* a getAllConfigs that writes the document it loaded back to the file
getAllConfigs_saving(f, wOk) ==
  LET ld == loadConfig(f, wOk)
  IN Out(saveConfig(ld.config), "value", Undef, ld.migrated, ld.wfail,
         ld.config)

getAllConfigs(f, wOk) ==
  LET ld == loadConfig(f, wOk)
  IN Out(ld.file, "value", Undef, ld.migrated, ld.wfail, ld.config)

\* config.providers.some((cfg) => cfg.name === name)
hasConfig(name, f, wOk) ==
  LET ld == loadConfig(f, wOk)
  IN Out(ld.file,
         IF someName(ld.config.providers, name) THEN "true" ELSE "false",
         Undef, ld.migrated, ld.wfail, ld.config)

\* config.providers.find((cfg) => cfg.name === name) || null
getConfig(name, f, wOk) ==
  LET ld == loadConfig(f, wOk)
  IN IF someName(ld.config.providers, name)
     THEN Out(ld.file, "value", name, ld.migrated, ld.wfail, ld.config)
     ELSE Out(ld.file, "null", Undef, ld.migrated, ld.wfail, ld.config)

\* a switch that stores the index without the bounds check
switchToIndex_unchecked(index, f, w1, w2) ==
  LET ld == loadConfig(f, w1)
  IN Out(saveConfig([ld.config EXCEPT !.currentIndex = index]), "value",
         Undef, ld.migrated, ld.wfail, ld.config)

switchToIndex(index, f, w1, w2) ==
  LET ld == loadConfig(f, w1)
      config == ld.config
  IN IF index < 0 \/ index >= Len(config.providers)
     THEN Out(ld.file, "null", Undef, ld.migrated, ld.wfail, config)
     ELSE IF w2
       THEN Out(saveConfig([config EXCEPT !.currentIndex = index]), "value",
                Get(At(config.providers, index).name), ld.migrated, ld.wfail, config)
       ELSE Out(ld.file, "raised", Undef, ld.migrated, TRUE, config)

isAddConfigParamsV2(params) == params.hasEnv

\* The parameter object of addConfig: the flat form carries baseUrl and
\* authToken, the env form carries env with the three keys.
AddParamsV1(name, baseUrl, authToken, description) ==
  [name |-> name, description |-> description, hasEnv |-> FALSE,
   baseUrl |-> baseUrl, authToken |-> authToken,
   ANTHROPIC_BASE_URL |-> Absent, ANTHROPIC_AUTH_TOKEN |-> Absent,
   ANTHROPIC_MODEL |-> Absent]

AddParamsV2(name, description, url, token, model) ==
  [name |-> name, description |-> description, hasEnv |-> TRUE,
   baseUrl |-> Absent, authToken |-> Absent,
   ANTHROPIC_BASE_URL |-> url, ANTHROPIC_AUTH_TOKEN |-> token,
   ANTHROPIC_MODEL |-> model]

\* !v || !v.trim()
Blank(v) == ~Truthy(v) \/ trim(v) = <<>>

\* the token field addConfig checks for the form of params
tokenOf(params) ==
  IF isAddConfigParamsV2(params) THEN params.ANTHROPIC_AUTH_TOKEN
  ELSE params.authToken

\* newProvider as built in manager.ts 221-245
newProvider(params) ==
  IF isAddConfigParamsV2(params)
  THEN ItemV2(trim(params.name), TrimOr(params.description, <<>>),
              TrimOr(params.ANTHROPIC_BASE_URL, Undef),
              trim(params.ANTHROPIC_AUTH_TOKEN),
              TrimOr(params.ANTHROPIC_MODEL, Undef))
  ELSE ItemV2(trim(params.name), TrimOr(params.description, <<>>),
              TrimOr(params.baseUrl, Undef),
              trim(params.authToken),
              Undef)

\* the validation of addConfig against the loaded document:
\* "name", "exists", "token" name the rejection, "ok" passes
addCheck(config, params) ==
  IF Blank(params.name) THEN "name"
  ELSE IF someName(config.providers, params.name) THEN "exists"
  ELSE IF Blank(tokenOf(params)) THEN "token"
  ELSE "ok"

\* the new profile replaces the list instead of being appended to it
pushProvider_replace(config, params) ==
  [config EXCEPT !.providers = <<newProvider(params)>>]

\* config.providers.push(newProvider)
pushProvider(config, params) ==
  [config EXCEPT !.providers = Append(@, newProvider(params))]

addConfig(params, f, w1, w2) ==
  LET ld == loadConfig(f, w1)
      config == ld.config
  IN IF addCheck(config, params) # "ok"
     THEN Out(ld.file, "false", Undef, ld.migrated, ld.wfail, config)
     ELSE IF w2
       THEN Out(saveConfig(pushProvider(config, params)), "true", Undef,
                ld.migrated, ld.wfail, config)
       ELSE Out(ld.file, "false", Undef, ld.migrated, TRUE, config)

\* an adjustment that clamps whenever the removed profile was the last one
adjustIndex_clampRemoved(currentIndex, providers, index) ==
  IF index >= Len(providers) THEN Len(providers) - 1
  ELSE IF currentIndex > index THEN currentIndex - 1
  ELSE currentIndex

\* the index adjustment without the decrement for a removal before the
\* current profile
adjustIndex_noShift(currentIndex, providers, index) ==
  IF currentIndex >= Len(providers) THEN Len(providers) - 1
  ELSE currentIndex

\* the index adjustment after providers.splice(index, 1); providers is the
\* list after the removal
adjustIndex(currentIndex, providers, index) ==
  IF currentIndex >= Len(providers) THEN Len(providers) - 1
  ELSE IF currentIndex > index THEN currentIndex - 1
  ELSE currentIndex

removeAt(config, index) ==
  [config EXCEPT
     !.providers = splice(config.providers, index),
     !.currentIndex =
        adjustIndex(config.currentIndex, splice(config.providers, index), index)]

\* deleteConfig without the check that keeps the last profile
deleteConfig_noLastCheck(name, f, w1, w2) ==
  LET ld == loadConfig(f, w1)
      config == ld.config
      index == findIndex(config.providers, name)
  IN IF index = -1 THEN Out(ld.file, "false", Undef, ld.migrated, ld.wfail, config)
     ELSE Out(saveConfig(removeAt(config, index)), "true", Undef,
              ld.migrated, ld.wfail, config)

deleteConfig(name, f, w1, w2) ==
  LET ld == loadConfig(f, w1)
      config == ld.config
      index == findIndex(config.providers, name)
  IN IF index = -1 THEN Out(ld.file, "false", Undef, ld.migrated, ld.wfail, config)
     ELSE IF Len(config.providers) <= 1
       THEN Out(ld.file, "false", Undef, ld.migrated, ld.wfail, config)
     ELSE IF w2
       THEN Out(saveConfig(removeAt(config, index)), "true", Undef,
                ld.migrated, ld.wfail, config)
       ELSE Out(ld.file, "false", Undef, ld.migrated, TRUE, config)

\* removeConfigByIndex without the check that keeps the last profile
removeConfigByIndex_noLastCheck(index, f, w1, w2) ==
  LET ld == loadConfig(f, w1)
      config == ld.config
  IN IF index < 0 \/ index >= Len(config.providers)
     THEN Out(ld.file, "false", Undef, ld.migrated, ld.wfail, config)
     ELSE IF w2
       THEN Out(saveConfig(removeAt(config, index)), "true", Undef,
                ld.migrated, ld.wfail, config)
       ELSE Out(ld.file, "false", Undef, ld.migrated, TRUE, config)

removeConfigByIndex(index, f, w1, w2) ==
  LET ld == loadConfig(f, w1)
      config == ld.config
  IN IF index < 0 \/ index >= Len(config.providers)
     THEN Out(ld.file, "false", Undef, ld.migrated, ld.wfail, config)
     ELSE IF Len(config.providers) <= 1
       THEN Out(ld.file, "false", Undef, ld.migrated, ld.wfail, config)
     ELSE IF w2
       THEN Out(saveConfig(removeAt(config, index)), "true", Undef,
                ld.migrated, ld.wfail, config)
       ELSE Out(ld.file, "false", Undef, ld.migrated, TRUE, config)

\* The updates object of updateConfig (Partial<ConfigItemV2>): name and
\* description are a string or Undef; hasEnv says whether updates.env is
\* given, and each env key is Absent (not in updates.env), Undef (present
\* with value undefined) or a string.
Updates(name, description, hasEnv, url, token, model) ==
  [name |-> name, description |-> description, hasEnv |-> hasEnv,
   ANTHROPIC_BASE_URL |-> url, ANTHROPIC_AUTH_TOKEN |-> token,
   ANTHROPIC_MODEL |-> model]

\* updates.env && key in updates.env ? updates.env[key] : existing.env[key]
mergeKey(hasEnv, updated, existing) ==
  IF hasEnv /\ updated # Absent THEN updated ELSE Get(existing)

\* the merged profile of manager.ts 321-339
mergeConfig(existingConfig, updates) ==
  ItemV2(IF Truthy(updates.name) THEN updates.name ELSE Get(existingConfig.name),
         IF Get(updates.description) # Undef THEN updates.description
         ELSE Get(existingConfig.description),
         mergeKey(updates.hasEnv, updates.ANTHROPIC_BASE_URL,
                  existingConfig.ANTHROPIC_BASE_URL),
         mergeKey(updates.hasEnv, updates.ANTHROPIC_AUTH_TOKEN,
                  existingConfig.ANTHROPIC_AUTH_TOKEN),
         mergeKey(updates.hasEnv, updates.ANTHROPIC_MODEL,
                  existingConfig.ANTHROPIC_MODEL))

\* existingConfig.env.KEY raises a TypeError when the profile has no env and
\* some key has to be read from it
mergeThrows(existingConfig, updates) ==
  /\ ~existingConfig.hasEnv
  /\ \/ ~updates.hasEnv
     \/ updates.ANTHROPIC_BASE_URL = Absent
     \/ updates.ANTHROPIC_AUTH_TOKEN = Absent
     \/ updates.ANTHROPIC_MODEL = Absent

updateConfig(name, updates, f, w1, w2) ==
  LET ld == loadConfig(f, w1)
      config == ld.config
      index == findIndex(config.providers, name)
  IN IF index = -1 THEN Out(ld.file, "false", Undef, ld.migrated, ld.wfail, config)
     ELSE IF /\ Truthy(updates.name)
             /\ updates.name # name
             /\ someName(config.providers, updates.name)
       THEN Out(ld.file, "false", Undef, ld.migrated, ld.wfail, config)
     ELSE IF mergeThrows(At(config.providers, index), updates)
       THEN Out(ld.file, "false", Undef, ld.migrated, ld.wfail, config)
     ELSE IF w2
       THEN Out(saveConfig([config EXCEPT !.providers[index + 1] =
                              mergeConfig(At(config.providers, index), updates)]),
                "true", Undef, ld.migrated, ld.wfail, config)
       ELSE Out(ld.file, "false", Undef, ld.migrated, TRUE, config)

resetConfig(f, wOk) ==
  IF wOk THEN Out(saveConfig(getDefaultV2Config), "void", Undef, FALSE, FALSE, NoFile)
  ELSE Out(f, "raised", Undef, FALSE, TRUE, NoFile)

\* forceMigration that reports the migration without saving the document
forceMigration_noSave(f, wOk) ==
  IF f.kind = "absent"
  THEN IF wOk
       THEN Out(saveConfig(getDefaultV2Config), "none->v2", Undef, FALSE, FALSE, NoFile)
       ELSE Out(f, "raised", Undef, FALSE, TRUE, NoFile)
  ELSE IF f.kind = "garbage" \/ InThrows(f)
    THEN Out(f, "raised", Undef, FALSE, FALSE, NoFile)
  ELSE IF ~migrate(f).result.migrated
    THEN Out(f, "not migrated", Undef, FALSE, FALSE, NoFile)
  ELSE IF MapThrows(f) THEN Out(f, "raised", Undef, FALSE, FALSE, NoFile)
  ELSE Out(f, "v1->v2", Undef, TRUE, FALSE, NoFile)

forceMigration(f, wOk) ==
  IF f.kind = "absent"
  THEN IF wOk
       THEN Out(saveConfig(getDefaultV2Config), "none->v2", Undef, FALSE, FALSE, NoFile)
       ELSE Out(f, "raised", Undef, FALSE, TRUE, NoFile)
  ELSE IF f.kind = "garbage" \/ InThrows(f) THEN Out(f, "raised", Undef, FALSE, FALSE, NoFile)
  ELSE IF ~migrate(f).result.migrated
    THEN Out(f, "not migrated", Undef, FALSE, FALSE, NoFile)
  ELSE IF MapThrows(f) THEN Out(f, "raised", Undef, FALSE, FALSE, NoFile)
  ELSE IF wOk
    THEN Out(saveConfig(migrate(f).config), "v1->v2", Undef, TRUE, FALSE, NoFile)
    ELSE Out(f, "raised", Undef, FALSE, TRUE, NoFile)

\* ------------------------------------------------------------------ inputs
\* profiles found in the files the model starts from
V1x == ItemV1(<<"x">>, <<>>, <<"t">>, <<"d">>)

V1y == ItemV1(<<"y">>, <<"u">>, <<>>, <<>>)

V2x == ItemV2(<<"x">>, <<"d">>, <<"u">>, <<"t">>, Absent)

V2y == ItemV2(<<"y">>, <<>>, Absent, <<"t">>, <<"m">>)

V2NoDescription == ItemV2(<<"x">>, Absent, Absent, <<"t">>, Absent)

\* a stored profile that has the name of the compiled-in default profile
V2d == ItemV2(sDefault, <<"d">>, <<"u">>, <<"t">>, Absent)

\* files holding a document that meets the invariants of the data model
ValidFiles ==
  { ConfigFileV1(<<V1x>>, 0),
    ConfigFileV1(<<V1x, V1y>>, 1),
    ConfigFileV2(<<V2x>>, 0),
    ConfigFileV2(<<V2x, V2y>>, 1) }

\* files holding anything else: not JSON, JSON that is no document, and
\* documents with an index out of range, no profile or a malformed profile
MalformedFiles ==
  { Garbage,
    JsonNull,
    Doc("object", "", FALSE, <<>>, 0),
    Doc("object", "v2", FALSE, <<>>, 0),
    Doc("object", "v1", TRUE, <<V1x>>, 0),
    ConfigFileV1(<<V1x>>, 999),
    ConfigFileV1(<<>>, 0),
    ConfigFileV2(<<V2x>>, 5),
    ConfigFileV2(<<V2x, V2y>>, -1),
    ConfigFileV2(<<V2d>>, 3),
    ConfigFileV2(<<V2NoDescription>>, 0),
    ConfigFileV2(<<>>, 0) }

InitFiles == {NoFile} \cup ValidFiles \cup MalformedFiles

AddParams ==
  { AddParamsV1(<<" ", "x">>, <<"u", " ">>, <<" ", "t">>, <<" ", "e">>),
    AddParamsV2(<<"x">>, Undef, Undef, <<"t", "2">>, <<"m", " ">>),
    AddParamsV2(<<"y">>, <<"d">>, <<" ">>, <<"t">>, Absent),
    AddParamsV2(<<" ">>, Undef, Absent, <<"t">>, Absent),
    AddParamsV1(<<>>, <<"u">>, <<"t">>, Undef),
    AddParamsV2(<<"z">>, Undef, Absent, <<" ">>, Absent),
    AddParamsV1(<<"z">>, <<"u">>, <<>>, Undef) }

Names == { <<"x">>, <<"y">>, sDefault }

UpdateParams ==
  { Updates(<<"y">>, Undef, FALSE, Absent, Absent, Absent),
    Updates(Undef, Undef, TRUE, Undef, <<"t", "2">>, Absent) }

Indexes == -1..MaxProviders

\* ------------------------------------------------------------------- state
\* file       : the content of the configuration file
\* last       : the operation that ran last, its argument (the index, the
\*              name, the params, or the name and the updates) and what its
\*              caller observed
\* migrations : how many times a migrated document was written, capped
\* faults     : whether writes may fail in this behaviour
\* proc       : the two processes of the racing specification
NoParams == AddParamsV2(<<>>, Undef, Absent, Absent, Absent)

IdleProc == [pc |-> "idle", params |-> NoParams, config |-> NoFile,
             result |-> "", sawOther |-> FALSE]

Last(op, arg, result, ret, migrated, wfail, loaded, who) ==
  [op |-> op, arg |-> arg, result |-> result, ret |-> ret,
   migrated |-> migrated, wfail |-> wfail, loaded |-> loaded, who |-> who]

InitCommon ==
  /\ file \in InitFiles
  /\ last = Last("init", Undef, "", Undef, FALSE, FALSE, NoFile, 0)
  /\ migrations = 0
  /\ proc = [p \in {1, 2} |-> IdleProc]

Init == InitCommon /\ faults = FALSE

InitFault == InitCommon /\ faults = TRUE

WriteOutcomes == IF faults THEN BOOLEAN ELSE {TRUE}

countMigration(n, migrated) ==
  IF migrated /\ n < MaxMigrations THEN n + 1 ELSE n

\* one whole public operation: the file it leaves and what the caller sees
Apply(op, arg, out) ==
  /\ file' = out.file
  /\ last' = Last(op, arg, out.result, out.ret, out.migrated, out.wfail,
                  out.loaded, 0)
  /\ migrations' = countMigration(migrations, out.migrated)
  /\ UNCHANGED <<faults, proc>>

GetCurrentConfig ==
  \E w1 \in WriteOutcomes :
    Apply("getCurrentConfig", Undef, getCurrentConfig(file, w1))

GetAllConfigs ==
  \E w1 \in WriteOutcomes : Apply("getAllConfigs", Undef, getAllConfigs(file, w1))

HasConfig ==
  \E name \in Names, w1 \in WriteOutcomes :
    Apply("hasConfig", name, hasConfig(name, file, w1))

GetConfig ==
  \E name \in Names, w1 \in WriteOutcomes :
    Apply("getConfig", name, getConfig(name, file, w1))

ListConfigs ==
  \E w1 \in WriteOutcomes : Apply("listConfigs", Undef, listConfigs(file, w1))

GetConfigEnvironment ==
  \E w1 \in WriteOutcomes :
    Apply("getConfigEnvironment", Undef, getConfigEnvironment(file, w1))

SwitchToIndex ==
  \E index \in Indexes, w1, w2 \in WriteOutcomes :
    Apply("switchToIndex", index, switchToIndex(index, file, w1, w2))

AddConfig ==
  \E params \in AddParams, w1, w2 \in WriteOutcomes :
    LET out == addConfig(params, file, w1, w2)
    IN /\ out.result = "true" => Len(out.file.providers) <= MaxProviders
       /\ Apply("addConfig", params, out)

DeleteConfig ==
  \E name \in Names, w1, w2 \in WriteOutcomes :
    Apply("deleteConfig", name, deleteConfig(name, file, w1, w2))

UpdateConfig ==
  \E name \in Names, updates \in UpdateParams, w1, w2 \in WriteOutcomes :
    Apply("updateConfig", <<name, updates>>,
          updateConfig(name, updates, file, w1, w2))

RemoveConfigByIndex ==
  \E index \in Indexes, w1, w2 \in WriteOutcomes :
    Apply("removeConfigByIndex", index,
          removeConfigByIndex(index, file, w1, w2))

ResetConfig ==
  \E w1 \in WriteOutcomes : Apply("resetConfig", Undef, resetConfig(file, w1))

ForceMigration ==
  \E w1 \in WriteOutcomes : Apply("forceMigration", Undef, forceMigration(file, w1))

Next ==
  \/ GetCurrentConfig
  \/ GetAllConfigs
  \/ HasConfig
  \/ GetConfig
  \/ ListConfigs
  \/ GetConfigEnvironment
  \/ SwitchToIndex
  \/ AddConfig
  \/ DeleteConfig
  \/ UpdateConfig
  \/ RemoveConfigByIndex
  \/ ResetConfig
  \/ ForceMigration

Spec == Init /\ [][Next]_vars

SpecFault == InitFault /\ [][Next]_vars

\* the kinds of file content
TypeOK == file.kind \in {"absent", "garbage", "primitive", "object"}

\* ------------------------------------------------- removals and switches
\* The store on a file of three profiles (or a V1 file of two), under the
\* operations that remove a profile or move the current index.
ThreeProfiles == <<V2x, V2y, V2d>>

InitRemove ==
  /\ file \in { ConfigFileV2(ThreeProfiles, c) : c \in 0..2 }
              \cup { ConfigFileV1(<<V1x, V1y>>, 1) }
  /\ last = Last("init", Undef, "", Undef, FALSE, FALSE, NoFile, 0)
  /\ migrations = 0
  /\ faults = FALSE
  /\ proc = [p \in {1, 2} |-> IdleProc]

NextRemove ==
  \/ RemoveConfigByIndex
  \/ DeleteConfig
  \/ SwitchToIndex
  \/ GetCurrentConfig

SpecRemove == InitRemove /\ [][NextRemove]_vars

\* ------------------------------------------------------------------ merges
\* The store under updateConfig with updates that cover the three states of
\* an env key (missing, present and undefined, present with a value), an
\* empty env object, and name and description given, empty or missing.
MergeUpdates ==
  { Updates(Undef, Undef, TRUE, Undef, Absent, Absent),
    Updates(Undef, Undef, TRUE, Absent, <<"t", "2">>, Undef),
    Updates(Undef, Undef, TRUE, <<"u", "2">>, Absent, <<"m", "2">>),
    Updates(Undef, Undef, TRUE, Absent, Absent, Absent),
    Updates(Undef, <<"n">>, FALSE, Absent, Absent, Absent),
    Updates(<<>>, <<>>, FALSE, Absent, Absent, Absent),
    Updates(<<"z">>, Undef, FALSE, Absent, Absent, Absent),
    Updates(<<"y">>, Undef, TRUE, Undef, Absent, Absent) }

InitMerge ==
  /\ file \in { NoFile,
                ConfigFileV1(<<V1x>>, 0),
                ConfigFileV2(<<V2x, V2y>>, 1),
                ConfigFileV2(<<V2d>>, 3) }
  /\ last = Last("init", Undef, "", Undef, FALSE, FALSE, NoFile, 0)
  /\ migrations = 0
  /\ faults = FALSE
  /\ proc = [p \in {1, 2} |-> IdleProc]

MergeConfig ==
  \E name \in Names, updates \in MergeUpdates :
    Apply("updateConfig", <<name, updates>>,
          updateConfig(name, updates, file, TRUE, TRUE))

NextMerge ==
  \/ MergeConfig
  \/ GetCurrentConfig

SpecMerge == InitMerge /\ [][NextMerge]_vars

\* ----------------------------------------------------- two racing processes
\* Two processes each run one addConfig on the same file.  The calls are
\* split where they touch the file: the read of loadConfig, the write of a
\* migrated document inside loadConfig, and the final saveConfig.  Each
\* process works on the content it read (proc[p].config).
Other(p) == 3 - p

Finished(p) == proc[p].pc = "done" /\ proc[p].result = "true"

\* after the read (and the migration write, if any): validate, then either
\* return false or go on to save
afterLoad(p, params, raw, saw) ==
  IF addCheck(loadConfig(raw, TRUE).config, params) # "ok"
  THEN [pc |-> "done", params |-> params, config |-> raw,
        result |-> "false", sawOther |-> saw]
  ELSE [pc |-> "saving", params |-> params, config |-> raw,
        result |-> "", sawOther |-> saw]

RaceRead(p) ==
  \E params \in AddParams :
    /\ proc[p].pc = "idle"
    /\ proc' = [proc EXCEPT ![p] =
         IF loadConfig(file, TRUE).migrated
         THEN [pc |-> "migrating", params |-> params, config |-> file,
               result |-> "", sawOther |-> Finished(Other(p))]
         ELSE afterLoad(p, params, file, Finished(Other(p)))]
    /\ last' = Last("addConfig.read", Undef, "", Undef, FALSE, FALSE, NoFile, p)
    /\ UNCHANGED <<file, migrations, faults>>

RaceMigrate(p) ==
  /\ proc[p].pc = "migrating"
  /\ file' = loadConfig(proc[p].config, TRUE).file
  /\ proc' = [proc EXCEPT ![p] =
       afterLoad(p, proc[p].params, proc[p].config, proc[p].sawOther)]
  /\ last' = Last("addConfig.migrate", Undef, "", Undef, TRUE, FALSE, NoFile, p)
  /\ migrations' = countMigration(migrations, TRUE)
  /\ UNCHANGED faults

RaceSave(p) ==
  /\ proc[p].pc = "saving"
  /\ file' = saveConfig(pushProvider(loadConfig(proc[p].config, TRUE).config,
                                     proc[p].params))
  /\ proc' = [proc EXCEPT ![p].pc = "done", ![p].result = "true"]
  /\ last' = Last("addConfig.save", Undef, "true", Undef, FALSE, FALSE, NoFile, p)
  /\ UNCHANGED <<migrations, faults>>

InitRace ==
  /\ file \in {NoFile} \cup ValidFiles
  /\ last = Last("init", Undef, "", Undef, FALSE, FALSE, NoFile, 0)
  /\ migrations = 0
  /\ faults = FALSE
  /\ proc = [p \in {1, 2} |-> IdleProc]

NextRace ==
  \/ \E p \in {1, 2} : RaceRead(p)
  \/ \E p \in {1, 2} : RaceMigrate(p)
  \/ \E p \in {1, 2} : RaceSave(p)

SpecRace == InitRace /\ [][NextRace]_vars

\* ------------------------------------------------------------------ claims
HasDocument(f) == f.kind = "object" /\ f.hasProviders

\* C1: no two profiles of the persisted document have the same name, after
\* any sequence of store operations from a file that is absent or whose
\* profile names are pairwise distinct.
C1_UniqueNames ==
  HasDocument(file) =>
    \A i, j \in 1..Len(file.providers) :
      i # j => Get(file.providers[i].name) # Get(file.providers[j].name)

\* operations that begin with loadConfig
Loads(op) == op \notin {"init", "resetConfig", "forceMigration"}

\* C2: every document the store writes has at least one profile and a
\* currentIndex that is a valid index into providers.
C2_WrittenDocumentValid ==
  [][file' # file =>
       /\ Len(file'.providers) >= 1
       /\ InRange(file'.providers, file'.currentIndex)]_vars

\* a document whose profiles are well formed, whatever its currentIndex
WellFormedItem(p) ==
  /\ Truthy(p.name)
  /\ Get(p.description) # Undef
  /\ p.hasEnv \/ (Get(p.baseUrl) # Undef /\ Get(p.authToken) # Undef)

WellFormedProfiles(f) ==
  /\ HasDocument(f)
  /\ Len(f.providers) >= 1
  /\ \A i \in 1..Len(f.providers) : WellFormedItem(f.providers[i])

IndexOutOfRange(f) == ~InRange(f.providers, f.currentIndex)

\* C3: loading a V1-shaped file whose currentIndex is out of range succeeds,
\* the loaded document has currentIndex 0, and the file afterwards holds the
\* migrated V2 document.
C3_V1IndexReset ==
  [][(/\ last'.op = "getCurrentConfig"
      /\ WellFormedProfiles(file)
      /\ file.version = ""
      /\ IndexOutOfRange(file))
     => /\ last'.result = "value"
        /\ last'.loaded.currentIndex = 0
        /\ file'.version = "v2"
        /\ file'.providers = saveConfig(migrateV1ToV2(file)).providers]_vars

\* C4: loading a V2-tagged document that is valid except for a currentIndex
\* out of range returns the file's own profiles with currentIndex 0.
C4_V2IndexTreatedAsZero ==
  [][(/\ Loads(last'.op)
      /\ WellFormedProfiles(file)
      /\ file.version = "v2"
      /\ IndexOutOfRange(file))
     => /\ last'.loaded.providers = file.providers
        /\ last'.loaded.currentIndex = 0]_vars

\* content that parses to a JSON object
Parseable(f) == f.kind = "object"

\* content on which migrateV1ToV2 runs to completion
Migratable(f) == f.kind = "object" /\ needsMigration(f) /\ ~MapThrows(f)

Queries == {"getCurrentConfig", "getAllConfigs"}

C7_WriteFaultSurfaces ==
  last.wfail => last.result \in {"false", "raised"}

\* C8: when writing the file fails, addConfig, updateConfig, deleteConfig
\* and removeConfigByIndex return false, switchToIndex, resetConfig and
\* forceMigration raise, and the file content is what it was before.
C8_FailedWriteReported ==
  [][last'.wfail =>
       /\ file' = file
       /\ last'.op \in {"addConfig", "updateConfig", "deleteConfig",
                        "removeConfigByIndex"} => last'.result = "false"
       /\ last'.op \in {"switchToIndex", "resetConfig", "forceMigration"}
            => last'.result = "raised"]_vars

\* the profiles and current index a file holds, whichever schema it uses;
\* an absent file stands for the default document
viewItem(p) ==
  [name |-> Get(p.name),
   description |-> Get(p.description),
   url |-> IF p.hasEnv THEN Get(p.ANTHROPIC_BASE_URL) ELSE OrUndefined(p.baseUrl),
   token |-> IF p.hasEnv THEN Get(p.ANTHROPIC_AUTH_TOKEN)
             ELSE OrUndefined(p.authToken),
   model |-> IF p.hasEnv THEN Get(p.ANTHROPIC_MODEL) ELSE Undef]

viewDocument(f) ==
  [providers |-> [i \in 1..Len(f.providers) |-> viewItem(f.providers[i])],
   currentIndex |-> f.currentIndex]

View(f) == IF f = NoFile THEN viewDocument(getDefaultV2Config) ELSE viewDocument(f)

\* the file holds a stored document (profiles well formed), or is absent
Stored(f) == f = NoFile \/ WellFormedProfiles(f)

\* the step is addConfig(params) with every write succeeding
AddStep(params) ==
  Apply("addConfig", params, addConfig(params, file, TRUE, TRUE))

\* the cases in which addConfig has to reject params on file content f
MustReject(params, f) ==
  \/ params.name = <<>> \/ trim(params.name) = <<>>
  \/ \E i \in 1..Len(View(f).providers) : View(f).providers[i].name = params.name
  \/ Get(tokenOf(params)) = Undef \/ trim(tokenOf(params)) = <<>>

\* C9: addConfig returns false and leaves the stored document unchanged (same
\* profiles, same order, same currentIndex) when the name is blank, the name
\* equals an existing profile's name, or the token is blank.
C9_RejectsWithoutChange ==
  [][\A params \in AddParams :
       (AddStep(params) /\ Stored(file) /\ MustReject(params, file))
         => (last'.result = "false" /\ View(file') = View(file))]_vars

\* the trimmed input, or absent when the input is missing or blank
trimmedOrAbsent(v) ==
  IF Get(v) = Undef THEN Undef
  ELSE IF trim(v) = <<>> THEN Undef ELSE trim(v)

\* the entry the claim describes for params
expectedEntry(params) ==
  [name |-> trim(params.name),
   description |-> IF Get(params.description) = Undef THEN <<>>
                   ELSE trim(params.description),
   url |-> IF params.hasEnv THEN trimmedOrAbsent(params.ANTHROPIC_BASE_URL)
           ELSE trimmedOrAbsent(params.baseUrl),
   token |-> trim(tokenOf(params)),
   model |-> IF params.hasEnv THEN trimmedOrAbsent(params.ANTHROPIC_MODEL)
             ELSE Undef]

\* C10: a successful addConfig yields the previous document with one V2
\* entry appended: trimmed name, description and token, base URL and model
\* trimmed or absent when empty, model absent for the flat form; stored
\* profiles, their order and currentIndex are unchanged.
C10_AppendsOneEntry ==
  [][\A params \in AddParams :
       (AddStep(params) /\ Stored(file) /\ last'.result = "true")
         => /\ file'.version = "v2"
            /\ View(file').currentIndex = View(file).currentIndex
            /\ View(file').providers =
                 Append(View(file).providers, expectedEntry(params))]_vars

\* the file holds the profile process p set out to add
Holds(p) ==
  \E i \in 1..Len(file.providers) :
    file.providers[i] = StringifyItem(newProvider(proc[p].params))

\* both calls returned true, for distinct names
BothAdded ==
  /\ Finished(1)
  /\ Finished(2)
  /\ trim(proc[1].params.name) # trim(proc[2].params.name)

\* C6: two racing addConfig calls with distinct names can both return true
\* while the final file holds only one of the two new profiles.  The last
\* write wins: the file holds the profile of the process that saved last,
\* and holds the other profile exactly when the last saver read the file
\* after the other had saved.
C6_LastWriteWins ==
  BothAdded =>
    /\ Holds(last.who)
    /\ Holds(Other(last.who)) <=> proc[last.who].sawOther

\* C6, the lost update: both calls returned true and one new profile is gone
C6_LostUpdate == BothAdded /\ ~Holds(Other(last.who))

\* the number of profiles a file holds
Count(f) == Len(View(f).providers)

\* the file holds a profile with this name
hasName(f, name) ==
  \E i \in 1..Count(f) : View(f).providers[i].name = name

Removals == {"removeConfigByIndex", "deleteConfig"}

\* the step returned false and left the stored document as it was
Rejected == last'.result = "false" /\ View(file') = View(file)

\* C11: removeConfigByIndex and deleteConfig return false and leave the
\* document unchanged when the index is outside [0, count), when the name is
\* not found, and when the document holds exactly one profile; no removal
\* brings the profile count below 1.
C11_RemovalKeepsOneProfile ==
  [][(Stored(file) /\ last'.op \in Removals) =>
       /\ (/\ last'.op = "removeConfigByIndex"
           /\ ~InRange(View(file).providers, last'.arg)) => Rejected
       /\ (last'.op = "deleteConfig" /\ ~hasName(file, last'.arg)) => Rejected
       /\ Count(file) = 1 => Rejected
       /\ Count(file') >= 1]_vars

\* C11, the last profile: removeConfigByIndex(0) on a document of exactly one
\* profile returned false and the file still holds that document
C11_LastProfileKept ==
  /\ last.op = "removeConfigByIndex"
  /\ last.arg = 0
  /\ last.result = "false"
  /\ Len(last.loaded.providers) = 1
  /\ WellFormedProfiles(file)
  /\ View(file) = View(last.loaded)

\* the index of the profile a removal step takes out of file content f
removedIndex(op, arg, f) ==
  IF op = "removeConfigByIndex" THEN arg
  ELSE (CHOOSE i \in 1..Count(f) :
          /\ View(f).providers[i].name = arg
          /\ \A j \in 1..(i - 1) : View(f).providers[j].name # arg) - 1

\* the profile at the current index of file content f
currentOf(f) == View(f).providers[View(f).currentIndex + 1]

\* C12: after a successful removal at index r from a document with valid
\* current index c: if r < c the new currentIndex is c - 1, if r > c it
\* stays c, and in both cases getCurrentConfig returns the same profile as
\* before; if r = c the current profile is the one that followed the removed
\* profile, or the new last profile when none followed.
C12_RemovalKeepsCurrent ==
  [][(/\ last'.op \in Removals
      /\ last'.result = "true"
      /\ Stored(file)
      /\ InRange(View(file).providers, View(file).currentIndex))
     => LET r == removedIndex(last'.op, last'.arg, file)
            c == View(file).currentIndex
        IN /\ View(file').providers = splice(View(file).providers, r)
           /\ r < c => (View(file').currentIndex = c - 1
                        /\ currentOf(file') = currentOf(file))
           /\ r > c => (View(file').currentIndex = c
                        /\ currentOf(file') = currentOf(file))
           /\ r = c => currentOf(file') =
                         IF r + 1 < Count(file)
                         THEN View(file).providers[r + 2]
                         ELSE View(file').providers[Count(file')]
           /\ getCurrentConfig(file', TRUE).ret = currentOf(file').name]_vars

\* C12, a removal before the current profile: removeConfigByIndex(0) with
\* current index 1 of three profiles succeeded and the current index is 0
C12_RemovedBeforeCurrent ==
  /\ last.op = "removeConfigByIndex"
  /\ last.arg = 0
  /\ last.result = "true"
  /\ Len(last.loaded.providers) = 3
  /\ last.loaded.currentIndex = 1
  /\ file.currentIndex = 0
  /\ Count(file) = 2

\* the position (from 1) of the first profile named name in file content f
positionOf(f, name) ==
  CHOOSE i \in 1..Count(f) :
    /\ View(f).providers[i].name = name
    /\ \A j \in 1..(i - 1) : View(f).providers[j].name # name

\* the value of one env key after a merge: a key present in updates.env
\* replaces the stored value (undefined clears it), a missing key keeps it
mergedKey(updates, updated, stored) ==
  IF updates.hasEnv /\ updated # Absent THEN Get(updated) ELSE stored

\* the step is a successful updateConfig on a profile the file holds
Updated ==
  /\ last'.op = "updateConfig"
  /\ last'.result = "true"
  /\ Stored(file)
  /\ hasName(file, last'.arg[1])

\* C13: updateConfig merges with three-state semantics: a key present in
\* updates.env (even with value undefined) replaces the stored value, a key
\* absent from updates.env keeps it; name and description are overwritten
\* only if provided; the updated profile keeps its position, and every other
\* profile and currentIndex are unchanged.
C13_ThreeStateMerge ==
  [][Updated =>
       LET updates == last'.arg[2]
           i == positionOf(file, last'.arg[1])
           old == View(file).providers[i]
           new == View(file').providers[i]
       IN /\ Count(file') = Count(file)
          /\ View(file').currentIndex = View(file).currentIndex
          /\ \A j \in 1..Count(file) :
               j # i => View(file').providers[j] = View(file).providers[j]
          /\ new.url = mergedKey(updates, updates.ANTHROPIC_BASE_URL, old.url)
          /\ new.token =
               mergedKey(updates, updates.ANTHROPIC_AUTH_TOKEN, old.token)
          /\ new.model = mergedKey(updates, updates.ANTHROPIC_MODEL, old.model)
          /\ new.name = (IF Truthy(updates.name) THEN updates.name ELSE old.name)
          /\ new.description = (IF updates.description # Undef
                                THEN updates.description
                                ELSE old.description)]_vars

\* C14: updateConfig returns false and leaves the stored document unchanged
\* when no profile has the given name, and when updates.name differs from
\* the given name and equals the name of an existing profile.
C14_UpdateRejected ==
  [][(/\ last'.op = "updateConfig"
      /\ Stored(file)
      /\ \/ ~hasName(file, last'.arg[1])
         \/ /\ last'.arg[2].name # last'.arg[1]
            /\ hasName(file, last'.arg[2].name))
     => Rejected]_vars

\* C15: switchToIndex(i) with i outside [0, count) returns null and makes no
\* change: the stored currentIndex and profiles are the same as before the
\* call, and getCurrentConfig returns the same profile as before.
C15_SwitchOutOfRange ==
  [][(/\ last'.op = "switchToIndex"
      /\ Stored(file)
      /\ ~InRange(View(file).providers, last'.arg))
     => /\ last'.result = "null"
        /\ View(file') = View(file)
        /\ getCurrentConfig(file', TRUE).ret = getCurrentConfig(file, TRUE).ret]_vars

\* C16: switchToIndex(i) with 0 <= i < count persists currentIndex = i,
\* changes nothing else in the document, and returns the profile at index i;
\* an immediately following getCurrentConfig returns that same profile.
C16_SwitchInRange ==
  [][(/\ last'.op = "switchToIndex"
      /\ Stored(file)
      /\ InRange(View(file).providers, last'.arg))
     => /\ last'.result = "value"
        /\ last'.ret = View(file).providers[last'.arg + 1].name
        /\ View(file').currentIndex = last'.arg
        /\ View(file').providers = View(file).providers
        /\ getCurrentConfig(file', TRUE).ret = last'.ret]_vars

\* the name of the profile C17 describes for file content f: the profile at
\* currentIndex when in bounds, otherwise the profile at index 0, otherwise
\* the compiled-in default profile
describedCurrent(f) ==
  IF ~HasDocument(f) THEN sDefault
  ELSE IF InRange(f.providers, f.currentIndex)
    THEN Get(At(f.providers, f.currentIndex).name)
  ELSE IF Len(f.providers) > 0 THEN Get(At(f.providers, 0).name)
  ELSE sDefault

\* files that hold no document, and files whose profiles are well formed
Described(f) == ~HasDocument(f) \/ Len(f.providers) = 0 \/ Stored(f)

\* C17: getCurrentConfig never returns undefined and never raises, for any
\* file state; it returns the profile at currentIndex when that index is in
\* bounds, otherwise the profile at index 0, otherwise (empty collection,
\* absent or unparseable file) the compiled-in default profile.
C17_CurrentNeverUndefined ==
  [][last'.op = "getCurrentConfig" =>
       /\ last'.result = "value"
       /\ Described(file) => last'.ret = describedCurrent(file)]_vars

\* the file is absent, unreadable or not valid JSON
Unreadable(f) == f.kind \in {"absent", "garbage"}

\* C18: when the file is absent, unreadable or not valid JSON, load returns
\* the default V2 document and does not write the file: after a read-only
\* query the file is still absent or still holds the same bytes.
C18_FallbackNotPersisted ==
  [][(Loads(last'.op) /\ Unreadable(file)) =>
       /\ last'.loaded = getDefaultV2Config
       /\ ~last'.migrated
       /\ last'.op \in Queries => (file' = file /\ last'.result = "value")]_vars

\* C18, a query on a file that is not valid JSON: getCurrentConfig returned
\* the default profile and the file still holds the same bytes
C18_GarbageKept ==
  /\ last.op = "getCurrentConfig"
  /\ last.loaded = getDefaultV2Config
  /\ last.ret = sDefault
  /\ file = Garbage

\* valid JSON that is structurally neither a V1 nor a V2 document: a JSON
\* value that is no object, an object without a providers array, an object
\* with an empty providers array
NeitherV1NorV2(f) ==
  \/ f.kind = "primitive"
  \/ f.kind = "object" /\ (~f.hasProviders \/ Len(f.providers) = 0)

\* C19: a file that is valid JSON but structurally neither a valid V1 nor a
\* valid V2 document never makes load raise, and load returns the default
\* document for it.
C19_MalformedGivesDefault ==
  [][(Loads(last'.op) /\ NeitherV1NorV2(file)) =>
       /\ last'.result # "raised"
       /\ last'.loaded = getDefaultV2Config]_vars

\* C20: a V2-tagged document that fails validateV2Config makes load return
\* the default document without raising and without writing the file.
C20_InvalidV2GivesDefault ==
  [][(/\ Loads(last'.op)
      /\ file.kind = "object"
      /\ file.version = "v2"
      /\ ~validateV2Config(file))
     => /\ last'.loaded = getDefaultV2Config
        /\ ~last'.migrated
        /\ last'.op \in Queries => (file' = file /\ last'.result = "value")]_vars

\* C20, a query on a V2-tagged document without description: getCurrentConfig
\* returned the default profile and the file is as it was
C20_InvalidV2Kept ==
  /\ last.op = "getCurrentConfig"
  /\ last.loaded = getDefaultV2Config
  /\ last.ret = sDefault
  /\ file = ConfigFileV2(<<V2NoDescription>>, 0)

C22_RoundTrip ==
  [][(/\ last'.op = "switchToIndex"
      /\ file.kind = "object"
      /\ validateV2Config(file)
      /\ last'.arg = file.currentIndex)
     => /\ last'.result = "value"
        /\ file' = file]_vars

\* C22, a round trip: switchToIndex(1) on the two-profile V2 document whose
\* current index is 1 loaded the file's document and left the file equal
C22_SavedUnchanged ==
  /\ last.op = "switchToIndex"
  /\ last.arg = 1
  /\ last.result = "value"
  /\ last.loaded = ConfigFileV2(<<V2x, V2y>>, 1)
  /\ file = ConfigFileV2(<<V2x, V2y>>, 1)

ReadQueries == {"getAllConfigs", "getConfig", "hasConfig"}

\* the profiles a query on file content f works on
queried(f) == viewDocument(loadConfig(f, TRUE).config).providers

\* C23: getAllConfigs, getConfig and hasConfig are read-only over a freshly
\* loaded document: a call leaves the stored profiles and currentIndex as
\* they were, and a later query works on the same profiles as this call did,
\* whatever the caller does with the list or the profile it was handed.
C23_QueriesReadOnly ==
  [][(last'.op \in ReadQueries /\ (Stored(file) \/ Unreadable(file))) =>
       /\ View(file') = View(file)
       /\ queried(file') = viewDocument(last'.loaded).providers]_vars

\* ------------------------------------------------------------ command line
\* The variables of an environment: the three recognised keys and one key
\* of the invoking process that no profile sets.  An environment maps each
\* to its value, Absent when the key is not there.
RecognisedKeys ==
  {"ANTHROPIC_BASE_URL", "ANTHROPIC_AUTH_TOKEN", "ANTHROPIC_MODEL"}

EnvKeys == RecognisedKeys \cup {"PATH"}

\* a projector that leaves ANTHROPIC_MODEL out
setupEnvironment_noModel(config) ==
  [k \in EnvKeys |->
     IF config.hasEnv /\ k \in RecognisedKeys \ {"ANTHROPIC_MODEL"}
        /\ Truthy(config[k])
     THEN config[k] ELSE Absent]

\* if (!config.env) return env; if (config.env.K) env.K = config.env.K
setupEnvironment(config) ==
  [k \in EnvKeys |->
     IF config.hasEnv /\ k \in RecognisedKeys /\ Truthy(config[k])
     THEN config[k] ELSE Absent]

\* the profile getCurrentConfig returns for a loaded document
currentProfile(config) ==
  IF InRange(config.providers, config.currentIndex)
  THEN At(config.providers, config.currentIndex)
  ELSE IF Len(config.providers) > 0 THEN At(config.providers, 0)
  ELSE At(getDefaultV2Config.providers, 0)

\* what spawn('claude', args, {env}) was called with
Spawned(args, env) == [spawned |-> TRUE, args |-> args, env |-> env]

NotSpawned ==
  [spawned |-> FALSE, args |-> <<>>, env |-> [k \in EnvKeys |-> Absent]]

\* a launcher that hands the child the overlay alone
runClaudeCode_overlayOnly(args, env, processEnv) == Spawned(args, env)

\* const mergedEnv = { ...process.env, ...env }; spawn('claude', args, ...)
runClaudeCode(args, env, processEnv) ==
  Spawned(args,
          [k \in EnvKeys |-> IF env[k] # Absent THEN env[k] ELSE processEnv[k]])

\* the words of a command line, as strings of characters
oHelp == <<"-", "-", "h", "e", "l", "p">>

oH == <<"-", "h">>

oVersion == <<"-", "-", "v", "e", "r", "s", "i", "o", "n">>

oV == <<"-", "v">>

oUse == <<"-", "-", "u", "s", "e">>

oRemove == <<"-", "-", "r", "e", "m", "o", "v", "e">>

oList == <<"-", "-", "l", "i", "s", "t">>

oConfigPath ==
  <<"-", "-", "c", "o", "n", "f", "i", "g", "-", "p", "a", "t", "h">>

oAdd == <<"-", "-", "a", "d", "d">>

oEdit == <<"-", "-", "e", "d", "i", "t">>

Digits == <<"0", "1", "2", "3", "4", "5", "6", "7", "8", "9">>

IsDigit(c) == \E d \in 1..10 : Digits[d] = c

DigitValue(c) == (CHOOSE d \in 1..10 : Digits[d] = c) - 1

RECURSIVE parseDigits(_, _)
parseDigits(s, acc) ==
  IF s = <<>> \/ ~IsDigit(Head(s)) THEN acc
  ELSE parseDigits(Tail(s), acc * 10 + DigitValue(Head(s)))

\* parseInt(str, 10): leading blanks, a sign, then the digits up to the
\* first other character; NaN when there is no digit
parseInt(str) ==
  LET t == trimStart(str)
      signed == t # <<>> /\ Head(t) \in {"-", "+"}
      body == IF signed THEN Tail(t) ELSE t
      magnitude == parseDigits(body, 0)
  IN IF body = <<>> \/ ~IsDigit(Head(body))
     THEN [nan |-> TRUE, value |-> 0]
     ELSE [nan |-> FALSE,
           value |-> IF signed /\ Head(t) = "-" THEN 0 - magnitude
                     ELSE magnitude]

\* str.startsWith('--')
startsWithDashes(str) == Len(str) >= 2 /\ str[1] = "-" /\ str[2] = "-"

\* CLIOptions; a numeric option that is undefined has its flag FALSE
NoOptions ==
  [help |-> FALSE, version |-> FALSE, listConfigs |-> FALSE,
   configPath |-> FALSE, addConfig |-> FALSE,
   hasUse |-> FALSE, useIndex |-> 0,
   hasRemove |-> FALSE, removeIndex |-> 0,
   hasEdit |-> FALSE, editIndex |-> 0]

\* the index an option such as --use takes from the word after it
indexAfter(args, i) ==
  IF i + 1 <= Len(args) /\ ~startsWithDashes(args[i + 1])
     /\ ~parseInt(args[i + 1]).nan
  THEN [taken |-> TRUE, value |-> parseInt(args[i + 1]).value]
  ELSE [taken |-> FALSE, value |-> 0]

\* the loop of parseArgs from word i on
RECURSIVE parseFrom(_, _, _)
parseFrom(args, i, options) ==
  IF i > Len(args) THEN options
  ELSE LET arg == args[i]
           idx == indexAfter(args, i)
           next == IF arg \in {oUse, oRemove, oEdit} /\ idx.taken
                   THEN i + 2 ELSE i + 1
       IN parseFrom(args, next,
            IF arg \in {oHelp, oH} THEN [options EXCEPT !.help = TRUE]
            ELSE IF arg \in {oVersion, oV}
              THEN [options EXCEPT !.version = TRUE]
            ELSE IF arg = oUse /\ idx.taken
              THEN [options EXCEPT !.hasUse = TRUE, !.useIndex = idx.value]
            ELSE IF arg = oRemove /\ idx.taken
              THEN [options EXCEPT !.hasRemove = TRUE,
                                   !.removeIndex = idx.value]
            ELSE IF arg = oList THEN [options EXCEPT !.listConfigs = TRUE]
            ELSE IF arg = oConfigPath
              THEN [options EXCEPT !.configPath = TRUE]
            ELSE IF arg = oAdd THEN [options EXCEPT !.addConfig = TRUE]
            ELSE IF arg = oEdit /\ idx.taken
              THEN [options EXCEPT !.hasEdit = TRUE, !.editIndex = idx.value]
            ELSE options)

parseArgs(args) == parseFrom(args, 1, NoOptions)

\* Outcome of handleCLI: the file afterwards, what was done, and the call
\* of spawn if there was one.  Every write succeeds.
Cli(f, result, spawn, loaded) == Out(f, result, spawn, FALSE, FALSE, loaded)

\* the branch of handleConfigCommands that is taken, "" when it returns
\* false
configCommand(options) ==
  IF options.hasUse THEN "use"
  ELSE IF options.hasRemove THEN "remove"
  ELSE IF options.listConfigs THEN "list"
  ELSE IF options.configPath THEN "config-path"
  ELSE IF options.addConfig THEN "add"
  ELSE IF options.hasEdit THEN "edit"
  ELSE ""

\* The identity of a profile object.  JSON.parse and getDefaultV2Config
\* build new objects each time loadConfig runs, so an object is known by
\* the load that built it and its place in that load's providers array;
\* load 0 is the one getAllConfigs made, load idx + 1 the one made by the
\* getCurrentConfig call of the listing's iteration idx.
Ref(load, index) == [load |-> load, index |-> index]

\* the object getCurrentConfig returns out of the document of that load;
\* place -1 is the profile of a further default document
currentRef(load, config) ==
  IF InRange(config.providers, config.currentIndex)
  THEN Ref(load, config.currentIndex)
  ELSE IF Len(config.providers) > 0 THEN Ref(load, 0)
  ELSE Ref(load, -1)

\* one line of the listing: `  [idx] name - description (current)`
Line(idx, cfg, current) ==
  [idx |-> idx, name |-> Get(cfg.name), current |-> current]

\* what the command left behind when it listed: no spawn, and the lines
Listed(lines) ==
  [spawned |-> FALSE, args |-> <<>>, env |-> [k \in EnvKeys |-> Absent],
   lines |-> lines]

\* configs.forEach((cfg, idx) => ...) from iteration idx on: the file after
\* the loads and the lines printed
RECURSIVE listFrom(_, _, _)
listFrom(idx, configs, f) ==
  IF idx >= Len(configs) THEN [file |-> f, lines |-> <<>>]
  ELSE LET cur == getCurrentConfig(f, TRUE)
           currentConfig == currentRef(idx + 1, cur.loaded)
           cfg == Ref(0, idx)
           rest == listFrom(idx + 1, configs, cur.file)
       IN [file |-> rest.file,
           lines |-> <<Line(idx, At(configs, idx), cfg = currentConfig)>>
                       \o rest.lines]

\* handleConfigCommands, for the commands that ask the user nothing;
\* --add and --edit open a prompt and are left to the caller
handleConfigCommands(options, f) ==
  LET command == configCommand(options)
      sw == switchToIndex(options.useIndex, f, TRUE, TRUE)
      rm == removeConfigByIndex(options.removeIndex, f, TRUE, TRUE)
      all == getAllConfigs(f, TRUE)
      ls == listFrom(0, all.loaded.providers, all.file)
  IN IF command = "use"
       THEN IF sw.result = "null"
            THEN Cli(getAllConfigs(sw.file, TRUE).file, "use", NotSpawned,
                     sw.loaded)
            ELSE Cli(sw.file, IF sw.result = "raised" THEN "raised" ELSE "use",
                     NotSpawned, sw.loaded)
     ELSE IF command = "remove"
       THEN Cli(rm.file, "remove", NotSpawned, rm.loaded)
     ELSE IF command = "list"
       THEN Cli(ls.file, "list", Listed(ls.lines), all.loaded)
     ELSE Cli(f, command, NotSpawned, NoFile)

handleCLI(args, processEnv, f) ==
  LET options == parseArgs(args)
      cur == getCurrentConfig(f, TRUE)
      currentConfig == currentProfile(cur.loaded)
  IN IF options.version THEN Cli(f, "version", NotSpawned, NoFile)
     ELSE IF options.help THEN Cli(f, "help", NotSpawned, NoFile)
     ELSE IF configCommand(options) # ""
       THEN handleConfigCommands(options, f)
     ELSE Cli(cur.file, "run",
              runClaudeCode(args, setupEnvironment(currentConfig), processEnv),
              cur.loaded)

\* The answers typed at the five prompts of editConfigInteractive.
Answers(name, description, baseUrl, authToken, model) ==
  [name |-> name, description |-> description, baseUrl |-> baseUrl,
   authToken |-> authToken, model |-> model]

\* the updates object built from the answers (part_000 276-315); a key that
\* is not set is Undef for name and description and Absent inside env
editUpdates(currentConfig, answers) ==
  LET url == IF trim(answers.baseUrl) # <<>> THEN trim(answers.baseUrl)
             ELSE Absent
      token == IF /\ trim(answers.authToken) # <<>>
                  /\ trim(answers.authToken) #
                       Get(currentConfig.ANTHROPIC_AUTH_TOKEN)
               THEN trim(answers.authToken) ELSE Absent
      model == IF /\ trim(answers.model) # <<>>
                  /\ trim(answers.model) #
                       (IF Truthy(currentConfig.ANTHROPIC_MODEL)
                        THEN currentConfig.ANTHROPIC_MODEL ELSE <<>>)
               THEN trim(answers.model) ELSE Absent
  IN Updates(IF /\ trim(answers.name) # <<>>
                /\ trim(answers.name) # Get(currentConfig.name)
             THEN trim(answers.name) ELSE Undef,
             IF trim(answers.description) # Get(currentConfig.description)
             THEN trim(answers.description) ELSE Undef,
             url # Absent \/ token # Absent \/ model # Absent,
             url, token, model)

\* Object.keys(updates).length === 0
noChanges(updates) ==
  updates.name = Undef /\ updates.description = Undef /\ ~updates.hasEnv

\* editConfigInteractive from the call to the last prompt's callback
editConfigInteractive(index, answers, f) ==
  LET all == getAllConfigs(f, TRUE)
      allConfigs == all.loaded.providers
      currentConfig == At(allConfigs, index)
      updates == editUpdates(currentConfig, answers)
      up == updateConfig(Get(currentConfig.name), updates, all.file, TRUE, TRUE)
  IN IF index < 0 \/ index >= Len(allConfigs)
       THEN Cli(all.file, "invalid", NotSpawned, all.loaded)
     ELSE IF noChanges(updates)
       THEN Cli(all.file, "unchanged", NotSpawned, all.loaded)
     ELSE Cli(up.file, IF up.result = "true" THEN "updated" ELSE "failed",
              NotSpawned, all.loaded)

\* profiles handed to the projector: every combination of a missing key,
\* an undefined value, an empty string and a value, and a profile that has
\* no env container
EnvValues == {Absent, Undef, <<>>, <<"v">>}

EnvProfiles ==
  { ItemV2(<<"x">>, <<"d">>, u, t, m) : u, t, m \in EnvValues }
    \cup { ItemV1(<<"x">>, <<"u">>, <<"t">>, <<"d">>) }

\* environments of the invoking process
ProcessEnvs ==
  { [k \in EnvKeys |->
       IF k = "PATH" THEN <<"b">>
       ELSE IF k = "ANTHROPIC_BASE_URL" THEN u
       ELSE IF k = "ANTHROPIC_AUTH_TOKEN" THEN t
       ELSE Absent] : u \in {Absent, <<"p">>}, t \in {Absent, <<"q">>} }

wPrompt == <<"h", "i">>

wModel == <<"-", "-", "m", "o", "d", "e", "l">>

\* command lines: some for the wrapped executable alone, some with an
\* option of auo
ArgLists ==
  { <<>>,
    <<wPrompt>>,
    <<wModel, <<"m">>, wPrompt>>,
    <<wPrompt, oV>>,
    <<oHelp>>,
    <<oUse, <<"1">>>>,
    <<oUse, <<"7">>>>,
    <<oUse, wPrompt>>,
    <<oRemove, <<"0">>>>,
    <<oList>>,
    <<oConfigPath>> }

CliFiles ==
  { NoFile,
    Garbage,
    ConfigFileV1(<<V1x, V1y>>, 1),
    ConfigFileV2(<<V2x, V2y>>, 0),
    ConfigFileV2(<<V2x, V2y>>, 1),
    ConfigFileV2(<<V2x>>, 5) }

InitCli ==
  /\ file \in CliFiles
  /\ last = Last("init", Undef, "", Undef, FALSE, FALSE, NoFile, 0)
  /\ migrations = 0
  /\ faults = FALSE
  /\ proc = [p \in {1, 2} |-> IdleProc]

SetupEnvironment ==
  \E config \in EnvProfiles :
    /\ last' = Last("setupEnvironment", config, "value",
                    setupEnvironment(config), FALSE, FALSE, NoFile, 0)
    /\ UNCHANGED <<file, migrations, faults, proc>>

HandleCLI ==
  \E args \in ArgLists, processEnv \in ProcessEnvs :
    LET out == handleCLI(args, processEnv, file)
    IN /\ file' = out.file
       /\ last' = Last("handleCLI", <<args, processEnv>>, out.result, out.ret,
                       FALSE, FALSE, out.loaded, 0)
       /\ UNCHANGED <<migrations, faults, proc>>

NextCli == SetupEnvironment \/ HandleCLI

SpecCli == InitCli /\ [][NextCli]_vars

\* ------------------------------------------------------- interactive edit
\* The store under auo --edit <index>, the five prompts answered.
\* answers: every prompt left blank, one prompt answered, the prompts of the
\* env keys answered, and a name that another profile has
EditAnswers ==
  { Answers(<<>>, <<>>, <<>>, <<>>, <<>>),
    Answers(<<"z", " ">>, <<>>, <<>>, <<>>, <<>>),
    Answers(<<>>, <<"e">>, <<>>, <<>>, <<>>),
    Answers(<<>>, <<"d">>, <<"w">>, <<"t", "2">>, <<"m">>),
    Answers(<<"y">>, <<" ">>, <<>>, <<"t">>, <<>>) }

EditFiles ==
  { NoFile,
    ConfigFileV2(<<V2x>>, 0),
    ConfigFileV2(<<V2x, V2y>>, 1),
    ConfigFileV1(<<V1x, V1y>>, 0) }

InitEdit ==
  /\ file \in EditFiles
  /\ last = Last("init", Undef, "", Undef, FALSE, FALSE, NoFile, 0)
  /\ migrations = 0
  /\ faults = FALSE
  /\ proc = [p \in {1, 2} |-> IdleProc]

EditConfigInteractive ==
  \E index \in 0..MaxProviders, answers \in EditAnswers :
    LET out == editConfigInteractive(index, answers, file)
    IN /\ file' = out.file
       /\ last' = Last("editConfigInteractive", <<index, answers>>,
                       out.result, out.ret, FALSE, FALSE, out.loaded, 0)
       /\ UNCHANGED <<migrations, faults, proc>>

NextEdit == EditConfigInteractive

SpecEdit == InitEdit /\ [][NextEdit]_vars

\* the value a profile stores under a recognised key, Undef when the
\* profile has no env container or no such key
storedValue(config, k) == IF config.hasEnv THEN Get(config[k]) ELSE Undef

\* C24 as stated: setupEnvironment outputs exactly the recognised keys
\* whose stored value is present: an absent value yields no key, a stored
\* empty string is projected as a key with the empty string, and a profile
\* without an env container yields an empty overlay.
C24_ProjectsPresentValues ==
  last.op = "setupEnvironment" =>
    /\ last.result = "value"
    /\ last.ret["PATH"] = Absent
    /\ \A k \in RecognisedKeys :
         last.ret[k] = IF storedValue(last.arg, k) = Undef THEN Absent
                       ELSE storedValue(last.arg, k)

\* C24 as amended: setupEnvironment outputs exactly the recognised keys
\* whose stored value is a non-empty string: an absent value and a stored
\* empty string yield no key, and a profile without an env container yields
\* an empty overlay without raising.
C24_ProjectsNonEmptyValues ==
  last.op = "setupEnvironment" =>
    /\ last.result = "value"
    /\ last.ret["PATH"] = Absent
    /\ \A k \in RecognisedKeys :
         last.ret[k] = IF storedValue(last.arg, k) \in {Undef, <<>>}
                       THEN Absent
                       ELSE storedValue(last.arg, k)

C24_EmptyNotProjected ==
  /\ last.op = "setupEnvironment"
  /\ last.arg = ItemV2(<<"x">>, <<"d">>, <<"v">>, <<>>, <<"v">>)
  /\ last.ret["ANTHROPIC_BASE_URL"] = <<"v">>
  /\ last.ret["ANTHROPIC_AUTH_TOKEN"] = Absent
  /\ last.ret["ANTHROPIC_MODEL"] = <<"v">>

\* the words parseArgs recognises as options of auo
AuoOptions ==
  {oHelp, oH, oVersion, oV, oUse, oRemove, oList, oConfigPath, oAdd, oEdit}

NoAuoOption(args) == \A i \in 1..Len(args) : args[i] \notin AuoOptions

V1Items ==
  { ItemV1(<<"x">>, u, t, <<"d">>) : u \in {<<>>, <<"u">>}, t \in {<<>>, <<"t">>} }

V2NoName == ItemV2(<<>>, <<"d">>, Absent, <<"t">>, Absent)

MigrationDocs ==
  { ConfigFileV1(<<p>>, 0) : p \in V1Items }
    \cup { ConfigFileV1(<<p, V1y>>, c) : p \in V1Items, c \in 0..1 }
    \cup { ConfigFileV2(<<V2x, V2y>>, c) : c \in -1..2 }
    \cup { ConfigFileV2(<<p>>, 0) : p \in {V2x, V2NoDescription, V2NoName, V1x} }
    \cup { Fractional(ConfigFileV2(<<V2x>>, c)) : c \in -1..1 }
    \cup { Fractional(ConfigFileV2(<<V2x, V2y>>, 1)),
           Fractional(ConfigFileV1(<<V1x, V1y>>, 0)),
           ConfigFileV2(<<>>, 0),
           Doc("object", "v1", TRUE, <<V1x>>, 0),
           Doc("object", "", FALSE, <<>>, 0),
           Doc("object", "v2", FALSE, <<>>, 0),
           JsonNull }

InitMigration ==
  /\ file \in MigrationDocs
  /\ last = Last("init", Undef, "", Undef, FALSE, FALSE, NoFile, 0)
  /\ migrations = 0
  /\ faults = FALSE
  /\ proc = [p \in {1, 2} |-> IdleProc]

\* a MigrationResult; fromVersion "" when the key is not there
MigrationResult(migrated, fromVersion, toVersion) ==
  [migrated |-> migrated, fromVersion |-> fromVersion, toVersion |-> toVersion]

NoResult == MigrationResult(FALSE, "", "")

Returned(op, result, ret, config) ==
  /\ last' = Last(op, Undef, result, ret, FALSE, FALSE, config, 0)
  /\ UNCHANGED <<file, migrations, faults, proc>>

NeedsMigration ==
  IF InThrows(file) THEN Returned("needsMigration", "raised", NoResult, NoFile)
  ELSE Returned("needsMigration",
                IF needsMigration(file) THEN "true" ELSE "false",
                NoResult, NoFile)

MigrateV1ToV2 ==
  IF MapThrows(file) THEN Returned("migrateV1ToV2", "raised", NoResult, NoFile)
  ELSE Returned("migrateV1ToV2", "value", NoResult, migrateV1ToV2(file))

Migrate ==
  IF InThrows(file) \/ (needsMigration(file) /\ MapThrows(file))
  THEN Returned("migrate", "raised", NoResult, NoFile)
  ELSE Returned("migrate", "value", migrate(file).result, migrate(file).config)

ValidateV2Config ==
  Returned("validateV2Config",
           IF validateV2Config(file) THEN "true" ELSE "false", NoResult, NoFile)

GetDefaultV2Config ==
  Returned("getDefaultV2Config", "value", NoResult, getDefaultV2Config)

NextMigration ==
  \/ NeedsMigration
  \/ MigrateV1ToV2
  \/ Migrate
  \/ ValidateV2Config
  \/ GetDefaultV2Config

SpecMigration == InitMigration /\ [][NextMigration]_vars

\* a V1 document: untagged, every profile with the four flat strings
IsV1Document(f) ==
  /\ f.kind = "object" /\ f.version = "" /\ f.hasProviders
  /\ \A i \in 1..Len(f.providers) :
       /\ ~f.providers[i].hasEnv
       /\ \A v \in {f.providers[i].name, f.providers[i].description,
                    f.providers[i].baseUrl, f.providers[i].authToken} :
            Get(v) # Undef

C26_ModelIsDefault ==
  (last.op = "migrateV1ToV2" /\ IsV1Document(file)) =>
    /\ last.result = "value"
    /\ \A i \in 1..Len(last.loaded.providers) :
         last.loaded.providers[i].ANTHROPIC_MODEL =
           <<"d", "e", "f", "a", "u", "l", "t">>

\* an object that has a list of profiles, whatever its tag
IsDocument(f) == f.kind = "object" /\ f.hasProviders

ListedValid(f) ==
  /\ f.version = "v2"
  /\ f.hasProviders /\ Len(f.providers) > 0
  /\ ~f.fraction /\ 0 <= f.currentIndex /\ f.currentIndex < Len(f.providers)
  /\ \A i \in 1..Len(f.providers) :
       /\ Get(f.providers[i].name) \notin {Undef, <<>>}
       /\ Get(f.providers[i].description) # Undef
       /\ f.providers[i].hasEnv

\* C28: validateV2Config returns true exactly when the tag equals 'v2',
\* providers is a non-empty array, currentIndex is an integer with
\* 0 <= currentIndex < providers.length, and every profile has a non-empty
\* string name, a string description and an env object; it returns false
\* otherwise, in particular for a non-integer currentIndex such as 0.5.
C28_ValidatesExactly ==
  last.op = "validateV2Config" =>
    last.result = IF ListedValid(file) THEN "true" ELSE "false"

\* C29 as stated: getDefaultV2Config returns a V2 document with exactly one
\* profile whose name is 'default', whose description is the empty string,
\* whose env has ANTHROPIC_AUTH_TOKEN equal to the empty string and no value
\* for the other two keys, and with currentIndex 0.
C29_DefaultEmptyDescription ==
  last.op = "getDefaultV2Config" =>
    /\ last.loaded.version = "v2"
    /\ Len(last.loaded.providers) = 1
    /\ last.loaded.providers[1].name = <<"d", "e", "f", "a", "u", "l", "t">>
    /\ last.loaded.providers[1].description = <<>>
    /\ last.loaded.providers[1].hasEnv
    /\ last.loaded.providers[1].ANTHROPIC_AUTH_TOKEN = <<>>
    /\ Get(last.loaded.providers[1].ANTHROPIC_BASE_URL) = Undef
    /\ Get(last.loaded.providers[1].ANTHROPIC_MODEL) = Undef
    /\ last.loaded.currentIndex = 0 /\ ~last.loaded.fraction

\* C29 as amended: getDefaultV2Config returns a V2 document with exactly one
\* profile whose name is 'default', whose description is
\* 'Default configuration', whose env has ANTHROPIC_AUTH_TOKEN equal to the
\* empty string and no value for the other two keys, and with currentIndex 0.
C29_DefaultDocument ==
  last.op = "getDefaultV2Config" =>
    /\ last.loaded.version = "v2"
    /\ Len(last.loaded.providers) = 1
    /\ last.loaded.providers[1].name = <<"d", "e", "f", "a", "u", "l", "t">>
    /\ last.loaded.providers[1].description =
         <<"D", "e", "f", "a", "u", "l", "t", " ",
           "c", "o", "n", "f", "i", "g", "u", "r", "a", "t", "i", "o", "n">>
    /\ last.loaded.providers[1].hasEnv
    /\ last.loaded.providers[1].ANTHROPIC_AUTH_TOKEN = <<>>
    /\ Get(last.loaded.providers[1].ANTHROPIC_BASE_URL) = Undef
    /\ Get(last.loaded.providers[1].ANTHROPIC_MODEL) = Undef
    /\ last.loaded.currentIndex = 0 /\ ~last.loaded.fraction

C29_DefaultReturned ==
  /\ last.op = "getDefaultV2Config"
  /\ last.result = "value"
  /\ Len(last.loaded.providers[1].description) = 21
  /\ validateV2Config(last.loaded)

\* the removal took the last profile of the list: the removed index is at
\* least the number of profiles that remain
RemovedLast ==
  /\ last'.op \in Removals
  /\ last'.result = "true"
  /\ Stored(file)
  /\ removedIndex(last'.op, last'.arg, file) >= Count(file')

\* C31 as stated: on a successful removal, if the removed index is greater
\* than or equal to the new profile count, currentIndex afterwards equals the
\* new last index, whichever profile was current before.
C31_ClampsWhenLastRemoved ==
  [][RemovedLast => View(file').currentIndex = Count(file') - 1]_vars

\* C31 as amended: on a successful removal, if the removed index is greater
\* than or equal to the new profile count, currentIndex afterwards equals the
\* new last index when the index before was greater than or equal to the new
\* profile count (the removed profile was the current one), and is unchanged
\* otherwise.
C31_ClampsWhenCurrentRemoved ==
  [][RemovedLast =>
       View(file').currentIndex =
         IF View(file).currentIndex >= Count(file') THEN Count(file') - 1
         ELSE View(file).currentIndex]_vars

\* C31, the last of three profiles removed while the first one is current
C31_LastRemovedCurrentKept ==
  /\ last.op = "removeConfigByIndex"
  /\ last.arg = 2
  /\ last.result = "true"
  /\ last.loaded = ConfigFileV2(ThreeProfiles, 0)
  /\ file.currentIndex = 0
  /\ Count(file) = 2

\* the edit ran to its end on the profile at last.arg[1]
Edited ==
  /\ last.op = "editConfigInteractive"
  /\ last.result \in {"updated", "unchanged", "failed"}

\* the profile the edit was about, before and after
editedBefore == viewDocument(last.loaded).providers[last.arg[1] + 1]

editedAfter == View(file).providers[last.arg[1] + 1]

\* C32: in editConfigInteractive a blank answer keeps the stored value: for
\* each of name, description, base URL, auth token and model, an empty answer
\* leaves that field of the stored profile unchanged after the edit.
C32_BlankKeepsValue ==
  Edited =>
    /\ Len(View(file).providers) = Len(last.loaded.providers)
    /\ trim(last.arg[2].name) = <<>> => editedAfter.name = editedBefore.name
    /\ trim(last.arg[2].description) = <<>> =>
         editedAfter.description = editedBefore.description
    /\ trim(last.arg[2].baseUrl) = <<>> => editedAfter.url = editedBefore.url
    /\ trim(last.arg[2].authToken) = <<>> =>
         editedAfter.token = editedBefore.token
    /\ trim(last.arg[2].model) = <<>> => editedAfter.model = editedBefore.model

\* C33: every document the store writes carries version 'v2', so once the
\* file is v2-tagged no store operation (add, update, remove, switch, reset,
\* forceMigration, queries) leaves it without the tag.
C33_WritesTagged ==
  [][/\ file' # file => (file'.kind = "object" /\ file'.version = "v2")
     /\ (file.kind = "object" /\ file.version = "v2") =>
          (file'.kind = "object" /\ file'.version = "v2")]_vars

\* C33, a V1 file migrated and rewritten by a removal in one operation
C33_MigratedThenRewritten ==
  /\ last.op = "deleteConfig"
  /\ last.result = "true"
  /\ last.migrated
  /\ file.kind = "object" /\ file.version = "v2"
  /\ Count(file) = 1

\* ------------------------------------------- two processes, any operations
\* Two processes issue store operations on the same file, again and again.
\* An operation is split where it touches the file: `Load` reads the file
\* (one atomic read), `Save` writes the document the operation computed from
\* what it read (one atomic write), or writes nothing when the operation
\* rejects its argument.
StoreOps == {"switchToIndex", "removeConfigByIndex", "addConfig"}

Pending(pc, op, index, params, config) ==
  [pc |-> pc, op |-> op, index |-> index, params |-> params, config |-> config]

NotPending == Pending("idle", "", 0, NoParams, NoFile)

InterleaveParams ==
  { AddParamsV2(<<"x">>, Undef, Undef, <<"t", "2">>, <<"m", " ">>),
    AddParamsV2(<<"y">>, <<"d">>, <<" ">>, <<"t">>, Absent) }

InterleaveIndexes == 0..1

\* the operation a process has pending, run on the content it read
pendingOut(q) ==
  IF q.op = "switchToIndex" THEN switchToIndex(q.index, q.config, TRUE, TRUE)
  ELSE IF q.op = "removeConfigByIndex"
    THEN removeConfigByIndex(q.index, q.config, TRUE, TRUE)
  ELSE addConfig(q.params, q.config, TRUE, TRUE)

\* the operation reached its saveConfig
pendingWrites(q) == pendingOut(q).result \in {"value", "true"}

InitInterleave ==
  /\ file \in {NoFile, ConfigFileV2(<<V2x>>, 0), ConfigFileV2(<<V2x, V2y>>, 1)}
  /\ last = Last("init", Undef, "", Undef, FALSE, FALSE, NoFile, 0)
  /\ migrations = 0
  /\ faults = FALSE
  /\ proc = [p \in {1, 2} |-> NotPending]

Load(p) ==
  \E op \in StoreOps, index \in InterleaveIndexes, params \in InterleaveParams :
    /\ proc[p].pc = "idle"
    /\ op = "addConfig" => index = 0
    /\ op # "addConfig" => params = CHOOSE x \in InterleaveParams : TRUE
    /\ proc' = [proc EXCEPT ![p] =
         Pending("loaded", op, index,
                 IF op = "addConfig" THEN params ELSE NoParams, file)]
    /\ last' = Last("load", <<op, index>>, "", NoFile, FALSE, FALSE, file, p)
    /\ UNCHANGED <<file, migrations, faults>>

\* last.ret is the content the write replaced, last.loaded the content the
\* process had read
Save(p) ==
  /\ proc[p].pc = "loaded"
  /\ pendingWrites(proc[p]) =>
       Len(pendingOut(proc[p]).file.providers) <= MaxProviders
  /\ file' = IF pendingWrites(proc[p]) THEN pendingOut(proc[p]).file ELSE file
  /\ proc' = [proc EXCEPT ![p] = NotPending]
  /\ last' = Last("save", <<proc[p].op, proc[p].index>>,
                  pendingOut(proc[p]).result, file, FALSE, FALSE,
                  proc[p].config, p)
  /\ UNCHANGED <<migrations, faults>>

NextInterleave ==
  \/ \E p \in {1, 2} : Load(p)
  \/ \E p \in {1, 2} : Save(p)

SpecInterleave == InitInterleave /\ [][NextInterleave]_vars

C35_CurrentStable ==
  [][(last.op = "getCurrentConfig" /\ last'.op = "getCurrentConfig") =>
       (last'.result = "value" /\ last'.ret = last.ret)]_vars

\* the operations that ask the store something and change nothing
QueryOps ==
  {"getCurrentConfig", "getAllConfigs", "getConfig", "hasConfig",
   "listConfigs", "getConfigEnvironment"}

\* C36: getCurrentConfig, getAllConfigs, getConfig, hasConfig, listConfigs
\* and getConfigEnvironment never write the file when it is absent,
\* unparseable or v2-tagged; a query writes only when the document on disk
\* parses and lacks the v2 tag (migration on read).
C36_QueriesWriteOnlyToMigrate ==
  [][last'.op \in QueryOps =>
       /\ (file.kind \in {"absent", "garbage"} \/ file.version = "v2") =>
            (file' = file /\ ~last'.migrated)
       /\ file' # file =>
            (file.kind \in {"primitive", "object"} /\ file.version # "v2"
             /\ last'.migrated)]_vars

\* C36, a query on a v2-tagged file that does not validate: the file is left
\* as it is and the answer comes from the default document
C36_InvalidV2NotRewritten ==
  /\ last.op = "getConfig"
  /\ last.arg = <<"x">>
  /\ last.result = "null"
  /\ ~last.migrated
  /\ file = ConfigFileV2(<<V2x>>, 5)

\* C37: deleteConfig(name) is equivalent to removeConfigByIndex(i) where i is
\* the index of the first profile named name: from the same stored document
\* both return the same boolean and leave the same stored document; and
\* deleteConfig returns false without change when no profile has that name.
C37_DeleteIsRemoveByIndex ==
  [][last'.op = "deleteConfig" =>
       IF hasName(file, last'.arg)
       THEN LET byIndex ==
                  removeConfigByIndex(positionOf(file, last'.arg) - 1, file,
                                      TRUE, TRUE)
            IN /\ last'.result = byIndex.result
               /\ file' = byIndex.file
       ELSE last'.result = "false" /\ View(file') = View(file)]_vars

\* C37, the second of three profiles deleted by name while the third is
\* current
C37_DeletedByName ==
  /\ last.op = "deleteConfig"
  /\ last.arg = <<"y">>
  /\ last.result = "true"
  /\ last.loaded = ConfigFileV2(ThreeProfiles, 2)
  /\ file = ConfigFileV2(<<V2x, V2d>>, 1)

\* the positions of the lines that end with ' (current)'
markedLines(lines) == { lines[i].idx : i \in { j \in 1..Len(lines) : lines[j].current } }

\* C38: the --list command marks exactly one listed profile with the suffix
\* ' (current)', the one at the stored currentIndex.
C38_MarksCurrent ==
  (last.op = "handleCLI" /\ last.result = "list"
     /\ Len(last.loaded.providers) > 0)
    => markedLines(last.ret.lines) = {View(file).currentIndex}

====
